---- MODULE Spec2Model ----
(***************************************************************************)
(* State machine of src/main.js: the render loop (animate), the keydown,   *)
(* click and resize handlers and the two completions of the spaceship      *)
(* load, interleaved on the single-threaded event queue.                   *)
(*                                                                         *)
(* Numbers are fixed point.  Lengths, the shader time uniform and the      *)
(* asteroid rotation are counted in hundredths (0.1 is 10, 0.05 is 5,      *)
(* 9.95 is 995); the starfield rotation is counted in ten-thousandths of   *)
(* a radian (-0.0001 is -1).  Colors are their 24-bit hex values.          *)
(***************************************************************************)
EXTENDS Integers, Sequences, FiniteSets, TLC

VARIABLES
    asteroids,                \* array of 50 meshes: position, rotation
    stars,                    \* the particle system: rotation.y
    spaceshipShaderMaterial,  \* the template ShaderMaterial (uniforms)
    spaceship,                \* the shared reference; undefined until loaded
    camera,                   \* position, lookAt target, aspect
    currentColorIndex,        \* index into colors (0-based, as in the code)
    rendererSize,             \* size last given to renderer.setSize
    windowSize,               \* window.innerWidth, window.innerHeight
    loadState,                \* the loader.load request: pending, loaded, failed
    pc,                       \* "script" until the top-level script has run
    ticks,                    \* history: calls of animate so far
    clicks,                   \* history: click events handled so far
    clicksAtLoad,             \* history: clicks handled before the load succeeded
    lastEvent                 \* history: the handler that ran last

vars == <<asteroids, stars, spaceshipShaderMaterial, spaceship, camera,
          currentColorIndex, rendererSize, windowSize, loadState, pc,
          ticks, clicks, clicksAtLoad, lastEvent>>

-----------------------------------------------------------------------------
(* Bounds of the model *)

MaxTicks == 2
MaxClicks == 4
MaxCoord == 1
MaxNodes == 3

(* Program constants, in the units given above *)

NumAsteroids == 50
asteroidSpeed == 10
WrapThreshold == 1000
WrapZ == -5000
AsteroidRotStep == 1
StarRotStep == -1
TimeStep == 5
InitialTime == 100
KeyStep == 50
CameraOffset == 1000
CameraStartZ == 1000
ShipScale == 2
Silver == 12632256
Ash == 11579568
White == 16777215

colors == <<Silver, Ash, White>>

Keys == {"ArrowUp", "ArrowDown", "ArrowLeft", "ArrowRight", "Enter"}

\* window sizes the environment may take (innerWidth, innerHeight)
Sizes == {<<800, 600>>, <<1280, 720>>}

Vec(px, py, pz) == [x |-> px, y |-> py, z |-> pz]

-----------------------------------------------------------------------------
(* Math.random() * 50 - 25 lies in [-25, 25).  The model gives the        *)
(* coordinates values of that interval chosen around the wrap threshold;   *)
(* every one of them is the z of some asteroid.                            *)

InitCoords == <<-2500, 0, 985, 990, 991, 995, 1000, 1005, 2499>>

RandomCoord(i, axis) ==
    InitCoords[((i + 2 * axis) % Len(InitCoords)) + 1]

(* A material: kind "shader" is a ShaderMaterial with its own uniforms;    *)
(* the other kinds carry no uniforms (time and color are 0).               *)
ShaderMaterial(t, c) == [kind |-> "shader", time |-> t, color |-> c]
StandardMaterial == [kind |-> "standard", time |-> 0, color |-> 0]
NoMaterial == [kind |-> "none", time |-> 0, color |-> 0]

isShaderMaterial(m) == m.kind = "shader"

\* `let spaceship;` : the reference is undefined
Undefined ==
    [defined |-> FALSE, position |-> Vec(0, 0, 0), scale |-> 0, nodes |-> <<>>]

(* The scenes a model file can hold: the nodes traverse visits, the root   *)
(* group first, then the descendants: some meshes (with the file's own     *)
(* material) and some nodes that are no meshes.                            *)
GltfNode(mesh) ==
    [isMesh |-> mesh, material |-> IF mesh THEN StandardMaterial ELSE NoMaterial]

GltfScene(meshes, others) ==
    [i \in 1 .. (1 + meshes + others) |->
        GltfNode(i > 1 /\ i <= 1 + meshes)]

GltfScenes ==
    { GltfScene(nm[1], nm[2]) :
        nm \in { p \in (0 .. MaxNodes) \X (0 .. MaxNodes) : 1 + p[1] + p[2] <= MaxNodes } }

-----------------------------------------------------------------------------
Init ==
    \E size \in Sizes :
        /\ asteroids =
               [i \in 1 .. NumAsteroids |->
                   [position |-> Vec(RandomCoord(i, 0),
                                     RandomCoord(i, 1),
                                     RandomCoord(i, 2)),
                    rotation |-> [x |-> 0, y |-> 0]]]
        /\ stars = [rotation |-> [y |-> 0]]
        /\ spaceshipShaderMaterial = ShaderMaterial(InitialTime, Silver)
        /\ spaceship = Undefined
        /\ camera = [position |-> Vec(0, 0, CameraStartZ),
                     target |-> Vec(0, 0, 0),
                     aspect |-> size]
        /\ currentColorIndex = 0
        /\ rendererSize = size
        /\ windowSize = size
        /\ loadState = "pending"
        /\ pc = "script"
        /\ ticks = 0
        /\ clicks = 0
        /\ clicksAtLoad = 0
        /\ lastEvent = "none"

-----------------------------------------------------------------------------
(* animate *)

\* variant: the threshold is tested before the advance
moveAsteroid_checkFirst(a) ==
    [position |-> [a.position EXCEPT !.z = IF @ > WrapThreshold THEN WrapZ
                                           ELSE @ + asteroidSpeed],
     rotation |-> [x |-> a.rotation.x + AsteroidRotStep,
                   y |-> a.rotation.y + AsteroidRotStep]]

\* variant: the threshold itself wraps (>= for >)
moveAsteroid_wrapAtThreshold(a) ==
    LET z == a.position.z + asteroidSpeed
    IN  [position |-> [a.position EXCEPT !.z = IF z >= WrapThreshold THEN WrapZ ELSE z],
         rotation |-> [x |-> a.rotation.x + AsteroidRotStep,
                       y |-> a.rotation.y + AsteroidRotStep]]

\* variant: the wrap is missing
moveAsteroid_noWrap(a) ==
    [position |-> [a.position EXCEPT !.z = @ + asteroidSpeed],
     rotation |-> [x |-> a.rotation.x + AsteroidRotStep,
                   y |-> a.rotation.y + AsteroidRotStep]]

\* the forEach callback: rotate, advance, then test the threshold
moveAsteroid(a) ==
    LET z == a.position.z + asteroidSpeed
    IN  [position |-> [a.position EXCEPT !.z = IF z > WrapThreshold THEN WrapZ ELSE z],
         rotation |-> [x |-> a.rotation.x + AsteroidRotStep,
                       y |-> a.rotation.y + AsteroidRotStep]]

\* variant: the trailing offset on z is missing
followSpaceship_noOffset(cam, ship) ==
    IF ship.defined
    THEN [cam EXCEPT !.position = ship.position, !.target = ship.position]
    ELSE cam

\* the chase camera: only when the spaceship is there
followSpaceship(cam, ship) ==
    IF ship.defined
    THEN [cam EXCEPT !.position = Vec(ship.position.x, ship.position.y,
                                      ship.position.z + CameraOffset),
                     !.target = ship.position]
    ELSE cam

(* One call of animate.  The first is the call at the end of the script,   *)
(* after which the rest of the script registers the listeners; the later   *)
(* ones are the requestAnimationFrame callbacks.                           *)
animate ==
    /\ ticks < MaxTicks
    /\ spaceshipShaderMaterial' =
           [spaceshipShaderMaterial EXCEPT !.time = @ + TimeStep]
    /\ asteroids' = [i \in DOMAIN asteroids |-> moveAsteroid(asteroids[i])]
    /\ stars' = [stars EXCEPT !.rotation.y = @ + StarRotStep]
    /\ camera' = followSpaceship(camera, spaceship)
    /\ pc' = "running"
    /\ ticks' = ticks + 1
    /\ lastEvent' = "animate"
    /\ UNCHANGED <<spaceship, currentColorIndex, rendererSize, windowSize,
                   loadState, clicks, clicksAtLoad>>

-----------------------------------------------------------------------------
(* loader.load *)

\* variant: the clone takes the color of the current palette entry
replaceMaterial_paletteColor(child, template) ==
    IF child.isMesh
    THEN [child EXCEPT !.material =
             ShaderMaterial(template.time, colors[currentColorIndex + 1])]
    ELSE child

\* variant: a fresh material in place of a clone (time starts over)
replaceMaterial_freshTime(child, template) ==
    IF child.isMesh
    THEN [child EXCEPT !.material = ShaderMaterial(InitialTime, template.color)]
    ELSE child

\* the traverse callback of the success callback
replaceMaterial(child, template) ==
    IF child.isMesh
    THEN [child EXCEPT !.material = ShaderMaterial(template.time, template.color)]
    ELSE child

loadSuccess(gltf) ==
    /\ pc = "running"
    /\ loadState = "pending"
    /\ spaceship' =
           [defined |-> TRUE,
            position |-> Vec(0, 0, 0),
            scale |-> ShipScale,
            nodes |-> [n \in DOMAIN gltf |->
                          replaceMaterial(gltf[n], spaceshipShaderMaterial)]]
    /\ loadState' = "loaded"
    /\ clicksAtLoad' = clicks
    /\ lastEvent' = "load"
    /\ UNCHANGED <<asteroids, stars, spaceshipShaderMaterial, camera,
                   currentColorIndex, rendererSize, windowSize, pc, ticks, clicks>>

\* variant: the error callback installs an empty placeholder ship
loadError_placeholder ==
    /\ pc = "running"
    /\ loadState = "pending"
    /\ loadState' = "failed"
    /\ spaceship' = [defined |-> TRUE, position |-> Vec(0, 0, 0),
                     scale |-> ShipScale, nodes |-> GltfScene(0, 0)]
    /\ lastEvent' = "error"
    /\ UNCHANGED <<asteroids, stars, spaceshipShaderMaterial, camera,
                   currentColorIndex, rendererSize, windowSize, pc, ticks, clicks,
                   clicksAtLoad>>

\* the error callback only logs
loadError ==
    /\ pc = "running"
    /\ loadState = "pending"
    /\ loadState' = "failed"
    /\ lastEvent' = "error"
    /\ UNCHANGED <<asteroids, stars, spaceshipShaderMaterial, spaceship, camera,
                   currentColorIndex, rendererSize, windowSize, pc, ticks, clicks,
                   clicksAtLoad>>

-----------------------------------------------------------------------------
(* keydown *)

\* variant: the test of the reference is missing
keydownMove_unguarded(ship, key) ==
    CASE key = "ArrowUp" -> [ship EXCEPT !.position.y = @ + KeyStep]
      [] key = "ArrowDown" -> [ship EXCEPT !.position.y = @ - KeyStep]
      [] key = "ArrowLeft" -> [ship EXCEPT !.position.x = @ - KeyStep]
      [] key = "ArrowRight" -> [ship EXCEPT !.position.x = @ + KeyStep]
      [] OTHER -> ship

\* the keydown handler's effect on the spaceship
keydownMove(ship, key) ==
    IF ship.defined
    THEN CASE key = "ArrowUp" -> [ship EXCEPT !.position.y = @ + KeyStep]
           [] key = "ArrowDown" -> [ship EXCEPT !.position.y = @ - KeyStep]
           [] key = "ArrowLeft" -> [ship EXCEPT !.position.x = @ - KeyStep]
           [] key = "ArrowRight" -> [ship EXCEPT !.position.x = @ + KeyStep]
           [] OTHER -> ship
    ELSE ship

Abs(n) == IF n < 0 THEN -n ELSE n

\* the model stops the ship at MaxCoord key steps from the origin
InRange(ship) ==
    Abs(ship.position.x) + Abs(ship.position.y) <= MaxCoord * KeyStep

keydown(key) ==
    /\ pc = "running"
    /\ spaceship' = keydownMove(spaceship, key)
    /\ InRange(spaceship')
    /\ lastEvent' = "keydown"
    /\ UNCHANGED <<asteroids, stars, spaceshipShaderMaterial, camera,
                   currentColorIndex, rendererSize, windowSize, loadState, pc,
                   ticks, clicks, clicksAtLoad>>

-----------------------------------------------------------------------------
(* click *)

\* variant: the material test is inverted, no clone is recolored
setColor_invertedTest(child, index) ==
    IF child.isMesh /\ ~isShaderMaterial(child.material)
    THEN [child EXCEPT !.material.color = colors[index + 1]]
    ELSE child

\* the traverse callback of the click handler
setColor(child, index) ==
    IF child.isMesh /\ isShaderMaterial(child.material)
    THEN [child EXCEPT !.material.color = colors[index + 1]]
    ELSE child

nextColorIndex(index) == (index + 1) % Len(colors)

\* variant: the index advances only under the test of the reference
click_advanceWhenPresent ==
    /\ pc = "running"
    /\ clicks < MaxClicks
    /\ currentColorIndex' =
           IF spaceship.defined THEN nextColorIndex(currentColorIndex)
           ELSE currentColorIndex
    /\ spaceship' =
           IF spaceship.defined
           THEN [spaceship EXCEPT !.nodes =
                    [n \in DOMAIN @ |-> setColor(@[n], nextColorIndex(currentColorIndex))]]
           ELSE spaceship
    /\ clicks' = clicks + 1
    /\ lastEvent' = "click"
    /\ UNCHANGED <<asteroids, stars, spaceshipShaderMaterial, camera,
                   rendererSize, windowSize, loadState, pc, ticks, clicksAtLoad>>

click ==
    /\ pc = "running"
    /\ clicks < MaxClicks
    /\ currentColorIndex' = nextColorIndex(currentColorIndex)
    /\ spaceship' =
           IF spaceship.defined
           THEN [spaceship EXCEPT !.nodes =
                    [n \in DOMAIN @ |-> setColor(@[n], nextColorIndex(currentColorIndex))]]
           ELSE spaceship
    /\ clicks' = clicks + 1
    /\ lastEvent' = "click"
    /\ UNCHANGED <<asteroids, stars, spaceshipShaderMaterial, camera,
                   rendererSize, windowSize, loadState, pc, ticks, clicksAtLoad>>

-----------------------------------------------------------------------------
(* resize *)

resize(size) ==
    /\ pc = "running"
    /\ size # windowSize
    /\ windowSize' = size
    /\ camera' = [camera EXCEPT !.aspect = size]
    /\ rendererSize' = size
    /\ lastEvent' = "resize"
    /\ UNCHANGED <<asteroids, stars, spaceshipShaderMaterial, spaceship,
                   currentColorIndex, loadState, pc, ticks, clicks, clicksAtLoad>>

-----------------------------------------------------------------------------
Next ==
    \/ animate
    \/ \E gltf \in GltfScenes : loadSuccess(gltf)
    \/ loadError
    \/ \E key \in Keys : keydown(key)
    \/ click
    \/ \E size \in Sizes : resize(size)

Spec == Init /\ [][Next]_vars

-----------------------------------------------------------------------------
(* Properties *)

Z(i) == asteroids[i].position.z
Zp(i) == asteroids'[i].position.z
Tick == ticks' = ticks + 1
Present == spaceship.defined
Meshes == { n \in DOMAIN spaceship.nodes : spaceship.nodes[n].isMesh }
MeshColor(n) == spaceship.nodes[n].material.color
MeshTime(n) == spaceship.nodes[n].material.time
AllMeshes(c) ==
    \A n \in Meshes : isShaderMaterial(spaceship.nodes[n].material) /\ MeshColor(n) = c
CameraStart == Vec(0, 0, 1000)

\* C1, as stated: a tick takes every asteroid's z to z + 0.1, unless z was
\* above 10 before the tick, and then to -50.
C1_AsStated ==
    [][Tick => \A i \in DOMAIN asteroids :
                  Zp(i) = IF Z(i) > WrapThreshold THEN WrapZ ELSE Z(i) + asteroidSpeed]_vars

\* C1, amended: a tick takes every asteroid's z to z + 0.1, unless z was
\* above 9.9 before the tick (z + 0.1 above 10), and then to -50.
C1_TickMovesOrWraps ==
    [][Tick => \A i \in DOMAIN asteroids :
                  Zp(i) = IF Z(i) > WrapThreshold - asteroidSpeed THEN WrapZ
                          ELSE Z(i) + asteroidSpeed]_vars

C1_Witness ==
    /\ ticks = 1
    /\ \E i \in DOMAIN asteroids : Z(i) = WrapZ
    /\ \E i \in DOMAIN asteroids : Z(i) = 995

\* C2: the wrap is increment-then-check within one tick: z + 0.1 above 10
\* gives -50 in that same tick, otherwise z + 0.1; no tick ends with an
\* asteroid in (10, 10.1].
C2_IncrementThenCheck ==
    [][Tick => \A i \in DOMAIN asteroids :
                  /\ Z(i) + asteroidSpeed > WrapThreshold => Zp(i) = WrapZ
                  /\ Z(i) + asteroidSpeed <= WrapThreshold => Zp(i) = Z(i) + asteroidSpeed
                  /\ ~(Zp(i) > WrapThreshold /\ Zp(i) <= WrapThreshold + asteroidSpeed)]_vars

C2_Witness ==
    /\ ticks >= 1
    /\ \E i \in DOMAIN asteroids : Z(i) = WrapThreshold
    /\ \E i \in DOMAIN asteroids : Z(i) = WrapZ

\* C3: the palette index is the number of clicks handled so far mod 3; a
\* click advances it by 1 mod 3 with or without the spaceship, and no other
\* event changes it.
C3_IndexIsClicksMod3 ==
    /\ [](currentColorIndex = clicks % 3)
    /\ [][/\ lastEvent' = "click" => currentColorIndex' = (currentColorIndex + 1) % 3
          /\ lastEvent' # "click" => currentColorIndex' = currentColorIndex]_vars

C3_Witness ==
    /\ clicks = 4
    /\ currentColorIndex = 1
    /\ loadState = "failed"

\* C4, as stated: after one or more clicks before the load completes, the
\* color uniform of the spaceship's meshes right after the load is not silver.
C4_AsStated ==
    (lastEvent = "load" /\ clicks >= 1) => \A n \in Meshes : MeshColor(n) # Silver

\* C4, amended: whatever clicks came before, the color uniform of every mesh
\* right after the load is silver, the template's color.
C4_LoadedShipIsSilver ==
    lastEvent = "load" => Present /\ AllMeshes(Silver)

C4_Witness ==
    /\ lastEvent = "load"
    /\ clicks >= 1
    /\ currentColorIndex # 0
    /\ Meshes # {}

\* C5, as stated: after every click handled with the spaceship present every
\* mesh has the color of the current palette entry, and three clicks after
\* the load bring the index to 0 and every mesh to silver.
C5_AsStated ==
    /\ (lastEvent = "click" /\ Present) => AllMeshes(colors[currentColorIndex + 1])
    /\ (Present /\ clicks = clicksAtLoad + 3) =>
           currentColorIndex = 0 /\ AllMeshes(Silver)

\* C5, amended: after every click handled with the spaceship present every
\* mesh has the color of the current palette entry, and three clicks after
\* the load bring the index back to its value at the load and every mesh to
\* that palette entry (0 and silver when the clicks before the load were a
\* multiple of 3).
C5_ClickRecolorsEveryMesh ==
    /\ (lastEvent = "click" /\ Present) => AllMeshes(colors[currentColorIndex + 1])
    /\ (Present /\ clicks = clicksAtLoad + 3) =>
           /\ currentColorIndex = clicksAtLoad % 3
           /\ AllMeshes(colors[(clicksAtLoad % 3) + 1])
           /\ clicksAtLoad % 3 = 0 => currentColorIndex = 0 /\ AllMeshes(Silver)

C5_Witness ==
    /\ Present
    /\ Cardinality(Meshes) >= 2
    /\ clicksAtLoad = 1
    /\ clicks = 4
    /\ AllMeshes(Ash)

\* C6: a tick with the spaceship present ends with the camera at the
\* spaceship's x and y and at its z + 10; a tick with the spaceship absent
\* leaves the camera position as it was.
C6_CameraFollows ==
    [][Tick => IF Present
               THEN camera'.position = Vec(spaceship'.position.x,
                                           spaceship'.position.y,
                                           spaceship'.position.z + 1000)
               ELSE camera'.position = camera.position]_vars

C6_Witness ==
    /\ lastEvent = "animate"
    /\ Present
    /\ spaceship.position.y = KeyStep
    /\ camera.position = Vec(0, KeyStep, 1000)

\* C7: a key-down handled while the spaceship is absent changes nothing of
\* the program's state.
C7_KeydownAbsentNoChange ==
    [][(lastEvent' = "keydown" /\ ~Present) =>
          UNCHANGED <<asteroids, stars, spaceshipShaderMaterial, spaceship, camera,
                      currentColorIndex, rendererSize, windowSize, loadState>>]_vars

C7_Witness ==
    /\ lastEvent = "keydown"
    /\ ~Present

\* C8: each tick adds 0.05 to the template's time uniform, which is 1.0 plus
\* 0.05 per tick so far; the time uniform of the spaceship's cloned materials
\* is the template's at the load and no event changes it afterwards.
C8_TimeUniforms ==
    /\ [](spaceshipShaderMaterial.time = 100 + 5 * ticks)
    /\ [][/\ Tick => spaceshipShaderMaterial'.time = spaceshipShaderMaterial.time + 5
          /\ Present =>
                 \A n \in Meshes : spaceship'.nodes[n].material.time = MeshTime(n)
          /\ (~Present /\ spaceship'.defined) =>
                 \A n \in DOMAIN spaceship'.nodes :
                     spaceship'.nodes[n].isMesh =>
                         spaceship'.nodes[n].material.time = 100 + 5 * ticks]_vars

C8_Witness ==
    /\ Present
    /\ ticks = 2
    /\ Meshes # {}
    /\ \A n \in Meshes : MeshTime(n) = 105
    /\ spaceshipShaderMaterial.time = 110

\* C9: the spaceship reference is absent at first, becomes present only by
\* the load's success callback, at most once, and is never absent again;
\* after a failed load it stays absent, the camera stays at (0,0,10) and no
\* event changes the spaceship or the camera position.
C9_ReferenceSetOnce ==
    /\ ~Present
    /\ [](loadState = "failed" => ~Present /\ camera.position = CameraStart)
    /\ [][/\ Present => spaceship'.defined
          /\ (~Present /\ spaceship'.defined) =>
                 lastEvent' = "load" /\ loadState = "pending" /\ loadState' = "loaded"
          /\ loadState # "pending" => loadState' = loadState
          /\ loadState = "failed" =>
                 spaceship' = spaceship /\ camera'.position = camera.position]_vars

C9_Witness ==
    /\ loadState = "failed"
    /\ lastEvent = "click"
    /\ ticks = 2

\* C10: there are 50 asteroids in every state; from the first tick on every
\* asteroid has -50 <= z <= 10; an asteroid above 10 before the first tick is
\* at -50 after it; only a tick changes an asteroid's position.
C10_AsteroidsInRange ==
    /\ [](/\ DOMAIN asteroids = 1 .. 50
          /\ ticks >= 1 => \A i \in DOMAIN asteroids : WrapZ <= Z(i) /\ Z(i) <= WrapThreshold)
    /\ [][/\ ~Tick => \A i \in DOMAIN asteroids :
                         asteroids'[i].position = asteroids[i].position
          /\ (ticks = 0 /\ Tick) =>
                 \A i \in DOMAIN asteroids : Z(i) > WrapThreshold => Zp(i) = WrapZ]_vars

C10_Witness ==
    /\ ticks = 2
    /\ \E i \in DOMAIN asteroids : Z(i) = WrapZ + asteroidSpeed
    /\ \E i \in DOMAIN asteroids : Z(i) = 20

====
